---------------------------- MODULE Spec2Model ----------------------------
(***************************************************************************)
(* LearnLynk CRM: the create-task Edge Function (src/README.md, from line  *)
(* 207), running against the tasks / applications / leads tables of the    *)
(* schema (src/unnamed/part_001), the row-level security policies on       *)
(* leads (the same file), the dashboard page (src/unnamed/part_000) and    *)
(* the setup endpoint (src/scripts/setup-db.ts).                           *)
(*                                                                         *)
(* Time is counted in whole hours.  Chars gives the characters of the      *)
(* texts that the code inspects character by character.                    *)
(*                                                                         *)
(* Spec follows one invocation of the handler; the clock, lead deletions   *)
(* and the realtime channel run concurrently with it.  DbSpec issues SQL   *)
(* statements against the tables, PolicySpec issues them as a caller       *)
(* subject to the policies, DashSpec follows the dashboard page.           *)
(* SystemSpec runs the handler beside the dashboard, SetupSpec runs the    *)
(* handler, request after request, beside the setup endpoint.              *)
(***************************************************************************)
EXTENDS Integers, Sequences, FiniteSets, TLC

VARIABLES
    now,          \* the wall clock (new Date() in the handler, now() in the database)
    envOk,        \* SUPABASE_URL and SUPABASE_SERVICE_ROLE_KEY are both set
    leads,        \* table leads
    applications, \* table applications
    tasks,        \* table tasks
    idSeq,        \* number of ids gen_random_uuid() has handed out
    pc,           \* where the handler invocation stands
    request,      \* the Request being served: method and body
    validatedAt,  \* the instant validateDueAt read as "now" for this request
    application,  \* the handler's local `application` (result of the lookup)
    task,         \* the handler's local `task` (the row the insert returned)
    insertError,  \* the handler's local `insertError` ("" for null)
    response,     \* the Response returned for the request
    access,       \* per request: body reads, application lookups, task inserts issued
    subs,         \* realtime channels subscribed and not yet answered
    sent,         \* broadcasts sent on realtime channels, in order
    statement,    \* the last SQL statement issued directly, and its outcome
    jwt,          \* auth.jwt(): the claims of the caller of such a statement
    user_teams,   \* table user_teams, which the policies read
    query,        \* dashboard: the state of the query ["tasks", "today"]
    fetch,        \* dashboard: the call of getTodaysTasks in flight
    mutation,     \* dashboard: the state of completeMutation
    errorBanner,  \* dashboard: the `error` of useState, shown in the banner
    failures,     \* the failures thrown to the dashboard so far (for the properties)
    setupResponse \* the answer of the last call of the setup endpoint

vars == <<now, envOk, leads, applications, tasks, idSeq, pc, request,
          validatedAt, application, task, insertError, response, access, subs, sent,
          statement, jwt, user_teams, query, fetch, mutation, errorBanner, failures,
          setupResponse>>

\* what the handler never touches
dashVars == <<query, fetch, mutation, errorBanner, failures>>
rlsVars == <<jwt, user_teams>>
setupVars == <<setupResponse>>
outsideVars == <<statement, rlsVars, dashVars, setupVars>>

-----------------------------------------------------------------------------
(* Bounds of the model *)

MaxTicks == 2
StartTime == 22

-----------------------------------------------------------------------------
(* Identifiers *)

SeedLeadId == "550e8400-e29b-41d4-a716-446655440000"
SeedTenantId == "550e8400-e29b-41d4-a716-446655440001"
SeedOwnerId == "550e8400-e29b-41d4-a716-446655440002"
SeedTeamId == "550e8400-e29b-41d4-a716-446655440003"
SeedApplicationId == "660e8400-e29b-41d4-a716-446655440000"
\* a second tenant and a second user
OtherTenantId == "550e8400-e29b-41d4-a716-446655440011"
OtherUserId == "550e8400-e29b-41d4-a716-446655440012"

\* further texts a caller may send as application_id
UpperApplicationId == "660E8400-E29B-41D4-A716-446655440000"    \* the same identifier in upper case
UnknownApplicationId == "660e8400-e29b-41d4-a716-4466554400ff"    \* a well-formed identifier of no row
NonHexId == "660e8400-e29b-41d4-a716-44665544000g"    \* a letter that is no hex digit
LongId == "660e8400-e29b-41d4-a716-4466554400000"    \* one character too many

\* the characters of the texts the handler inspects character by character
Chars(text) ==
    CASE text = "" -> <<>>
      [] text = SeedApplicationId ->
           <<"6","6","0","e","8","4","0","0","-","e","2","9","b","-","4","1","d","4","-","a","7","1","6","-","4","4","6","6","5","5","4","4","0","0","0","0">>
      [] text = UpperApplicationId ->
           <<"6","6","0","E","8","4","0","0","-","E","2","9","B","-","4","1","D","4","-","A","7","1","6","-","4","4","6","6","5","5","4","4","0","0","0","0">>
      [] text = UnknownApplicationId ->
           <<"6","6","0","e","8","4","0","0","-","e","2","9","b","-","4","1","d","4","-","a","7","1","6","-","4","4","6","6","5","5","4","4","0","0","f","f">>
      [] text = NonHexId ->
           <<"6","6","0","e","8","4","0","0","-","e","2","9","b","-","4","1","d","4","-","a","7","1","6","-","4","4","6","6","5","5","4","4","0","0","0","g">>
      [] text = LongId ->
           <<"6","6","0","e","8","4","0","0","-","e","2","9","b","-","4","1","d","4","-","a","7","1","6","-","4","4","6","6","5","5","4","4","0","0","0","0","0">>

InspectedTexts ==
    {"", SeedApplicationId, UpperApplicationId, UnknownApplicationId, NonHexId, LongId}

\* the text with the given characters
TextOf(chars) == CHOOSE text \in InspectedTexts : Chars(text) = chars

SeedTaskId(n) == <<"770e8400-e29b-41d4-a716-446655440001",
                   "770e8400-e29b-41d4-a716-446655440002",
                   "770e8400-e29b-41d4-a716-446655440003">>[n]

\* gen_random_uuid(): a fresh identifier on every call, n calls having been made
gen_random_uuid(n) == <<"00000000-0000-4000-8000-000000000001",
                        "00000000-0000-4000-8000-000000000002",
                        "00000000-0000-4000-8000-000000000003">>[n + 1]

HexLower == {"0","1","2","3","4","5","6","7","8","9","a","b","c","d","e","f"}
HexUpper == {"A","B","C","D","E","F"}

\* the groups of the pattern: 8-4-4-4-12, hyphens at 9, 14, 19, 24
UuidHyphens == {9, 14, 19, 24}
UuidLength == 36

isValidUUID_Unanchored(uuid) ==
    \E k \in 0..(Len(Chars(uuid)) - UuidLength) :
        \A i \in 1..UuidLength :
            IF i \in UuidHyphens THEN Chars(uuid)[k + i] = "-"
            ELSE Chars(uuid)[k + i] \in HexLower \cup HexUpper

\* /^[0-9a-f]{8}-[0-9a-f]{4}-[0-9a-f]{4}-[0-9a-f]{4}-[0-9a-f]{12}$/i
isValidUUID(uuid) ==
    /\ Len(Chars(uuid)) = UuidLength
    /\ \A i \in 1..UuidLength :
          IF i \in UuidHyphens THEN Chars(uuid)[i] = "-"
          ELSE Chars(uuid)[i] \in HexLower \cup HexUpper

ToLower(c) ==
    CASE c = "A" -> "a" [] c = "B" -> "b" [] c = "C" -> "c"
      [] c = "D" -> "d" [] c = "E" -> "e" [] c = "F" -> "f"
      [] OTHER -> c

\* the uuid column type: text is read case-insensitively and stored in lower case
ToUuid(text) == TextOf([i \in 1..Len(Chars(text)) |-> ToLower(Chars(text)[i])])


-----------------------------------------------------------------------------
(* Values a request can carry *)

Methods == {"POST", "OPTIONS", "GET", "DELETE"}

\* a due_at text is empty, not a date, or the ISO-8601 text of an instant
EmptyDue == [form |-> "empty", time |-> 0]
NotADate == [form |-> "not-a-date", time |-> 0]
IsoText(t) == [form |-> "iso", time |-> t]

Instants == (StartTime - 1)..(StartTime + MaxTicks + 1)

ApplicationIdTexts ==
    {"", NonHexId, LongId, SeedApplicationId, UpperApplicationId, UnknownApplicationId}
TaskTypeTexts == {"", "call", "email", "review", "meeting"}
DueAtTexts == {EmptyDue, NotADate} \cup {IsoText(t) : t \in Instants}
StatusTexts == {"completed"}
TenantIdTexts == {OtherTenantId}

FieldNames == {"application_id", "task_type", "due_at", "status", "tenant_id"}

\* JSON objects with any subset of the five fields
JsonObjects ==
    { [f \in D |-> full[f]] :
        full \in [application_id : ApplicationIdTexts, task_type : TaskTypeTexts,
                  due_at : DueAtTexts, status : StatusTexts,
                  tenant_id : TenantIdTexts],
        D \in SUBSET FieldNames }

\* what req.json() is given: text that is no JSON, the JSON value null, an object
Bodies ==
    {[kind |-> "invalid"], [kind |-> "null"]}
        \cup {[kind |-> "object", fields |-> o] : o \in JsonObjects}

-----------------------------------------------------------------------------
(* Responses *)

JsonHeaders ==
    {<<"Content-Type", "application/json">>, <<"Access-Control-Allow-Origin", "*">>}
PreflightHeaders ==
    {<<"Access-Control-Allow-Origin", "*">>,
     <<"Access-Control-Allow-Methods", "POST, OPTIONS">>,
     <<"Access-Control-Allow-Headers", "Content-Type">>}

NullBody == [null |-> TRUE]

\* no Response has been returned yet
NoResponse == [status |-> 0, body |-> NullBody, headers |-> {}]

\* new Response(null, {headers}): the status defaults to 200
Preflight == [status |-> 200, body |-> NullBody, headers |-> PreflightHeaders]

Failure_ClaimsSuccess(status, message) ==
    [status |-> status, body |-> [success |-> TRUE, error |-> message],
     headers |-> JsonHeaders]

Failure(status, message) ==
    [status |-> status, body |-> [success |-> FALSE, error |-> message],
     headers |-> JsonHeaders]

Success(taskId) ==
    [status |-> 200, body |-> [success |-> TRUE, task_id |-> taskId],
     headers |-> JsonHeaders]

-----------------------------------------------------------------------------
(* The validators *)

\* new Date(text): an invalid Date has getTime() NaN
NewDate(text) ==
    IF text.form = "iso" THEN [nan |-> FALSE, time |-> text.time]
    ELSE [nan |-> TRUE, time |-> 0]

validateDueAt_AcceptsNow(dueAtString, t) ==
    LET dueAt == NewDate(dueAtString) IN
    IF dueAt.nan THEN [valid |-> FALSE, error |-> "Invalid ISO timestamp format"]
    ELSE IF dueAt.time < t THEN [valid |-> FALSE, error |-> "due_at must be in the future"]
    ELSE [valid |-> TRUE, error |-> ""]

validateDueAt(dueAtString, t) ==
    LET dueAt == NewDate(dueAtString) IN
    IF dueAt.nan THEN [valid |-> FALSE, error |-> "Invalid ISO timestamp format"]
    ELSE IF dueAt.time <= t THEN [valid |-> FALSE, error |-> "due_at must be in the future"]
    ELSE [valid |-> TRUE, error |-> ""]

TaskTypes == {"call", "email", "review"}

validateTaskType_AllowsMeeting(taskType) == taskType \in TaskTypes \cup {"meeting"}

validateTaskType(taskType) == taskType \in TaskTypes

\* !body.f : the field is missing or is the empty string
Missing(o, f) ==
    \/ f \notin DOMAIN o
    \/ f \in {"application_id", "task_type"} /\ o[f] = ""
    \/ f = "due_at" /\ o[f].form = "empty"

\* the checks of the handler on a parsed object, in order; "" when all pass
ValidationError(o, t) ==
    IF Missing(o, "application_id") THEN "application_id is required"
    ELSE IF Missing(o, "task_type") THEN "task_type is required"
    ELSE IF Missing(o, "due_at") THEN "due_at is required"
    ELSE IF ~isValidUUID(o.application_id) THEN "application_id must be a valid UUID"
    ELSE IF ~validateTaskType(o.task_type)
        THEN "task_type must be one of: \"call\", \"email\", \"review\""
    ELSE validateDueAt(o.due_at, t).error

\* a handler that reads the environment before the body
BodyOutcome_EnvFirst(body, t, env) ==
    IF ~env \/ body.kind = "null" THEN Failure(500, "Internal server error")
    ELSE IF body.kind = "invalid" THEN Failure(400, "Invalid JSON in request body")
    ELSE IF ValidationError(body.fields, t) # ""
        THEN Failure(400, ValidationError(body.fields, t))
    ELSE NoResponse

\* the handler from req.json() up to createClient: the Response it returns, or
\* NoResponse when it goes on to the application lookup
BodyOutcome(body, t, env) ==
    IF body.kind = "invalid" THEN Failure(400, "Invalid JSON in request body")
    ELSE IF body.kind = "null"
        \* body.application_id throws a TypeError, caught by the outer catch
        THEN Failure(500, "Internal server error")
    ELSE IF ValidationError(body.fields, t) # ""
        THEN Failure(400, ValidationError(body.fields, t))
    ELSE IF ~env
        \* throw new Error("Missing Supabase environment variables")
        THEN Failure(500, "Internal server error")
    ELSE NoResponse

MethodOutcome_NoMethodCheck(method) ==
    IF method = "OPTIONS" THEN Preflight ELSE NoResponse

\* the method dispatch: the Response returned at once, or NoResponse for POST
MethodOutcome(method) ==
    IF method = "OPTIONS" THEN Preflight
    ELSE IF method # "POST" THEN Failure(405, "Method not allowed. Use POST.")
    ELSE NoResponse


-----------------------------------------------------------------------------
(* The tables *)

\* REFERENCES applications (id), and the two CHECK constraints of table tasks
task_fk_valid_Unchecked(row, apps) == TRUE
task_fk_valid(row, apps) == \E a \in apps : a.id = row.application_id
task_type_valid(row) == row.type \in {"call", "email", "review"}
task_due_at_valid_Dropped(row) == TRUE
task_due_at_valid(row) == row.due_at >= row.created_at

\* the Applications of a Lead and the Tasks of Applications (the cascade)
ApplicationsOf(l, apps) == {a \in apps : a.lead_id = l.id}
TasksOf(as, rows) == {t \in rows : \E a \in as : a.id = t.application_id}

\* the outcome of INSERT INTO tasks: "" or the error the database raises
InsertError(row, apps, rows, fault) ==
    IF fault THEN "connection failure"
    ELSE IF \E r \in rows : r.id = row.id THEN "duplicate key value"
    ELSE IF ~task_fk_valid(row, apps) THEN "violates foreign key constraint"
    ELSE IF ~task_type_valid(row) THEN "violates check constraint task_type_valid"
    ELSE IF ~task_due_at_valid(row) THEN "violates check constraint task_due_at_valid"
    ELSE ""

\* .from("applications").select("tenant_id").eq("id", id): the rows matched
SelectApplication(apps, idText) == {a \in apps : a.id = ToUuid(idText)}

\* the row the handler asks the database to insert; id, created_at and
\* updated_at take their column defaults
NewTaskRow_CallerStatus(o, app, id, t) ==
    [id |-> id, tenant_id |-> app.tenant_id,
     application_id |-> ToUuid(o.application_id), type |-> o.task_type,
     status |-> IF "status" \in DOMAIN o THEN o.status ELSE "pending",
     due_at |-> NewDate(o.due_at).time, created_at |-> t, updated_at |-> t]

NewTaskRow_CallerTenant(o, app, id, t) ==
    [id |-> id,
     tenant_id |-> IF "tenant_id" \in DOMAIN o THEN o.tenant_id ELSE app.tenant_id,
     application_id |-> ToUuid(o.application_id), type |-> o.task_type,
     status |-> "pending",
     due_at |-> NewDate(o.due_at).time, created_at |-> t, updated_at |-> t]

NewTaskRow(o, app, id, t) ==
    [id |-> id, tenant_id |-> app.tenant_id,
     application_id |-> ToUuid(o.application_id), type |-> o.task_type,
     status |-> "pending",
     due_at |-> NewDate(o.due_at).time, created_at |-> t, updated_at |-> t]

\* the sample rows the schema script inserts, at instant t
SeedLeads ==
    {[id |-> SeedLeadId, tenant_id |-> SeedTenantId, owner_id |-> SeedOwnerId,
      team_id |-> SeedTeamId, stage |-> "qualified"]}
SeedApplications ==
    {[id |-> SeedApplicationId, tenant_id |-> SeedTenantId, lead_id |-> SeedLeadId,
      status |-> "pending"]}
SeedTask(n, type, status, due, created, updated) ==
    [id |-> SeedTaskId(n), tenant_id |-> SeedTenantId,
     application_id |-> SeedApplicationId, type |-> type, status |-> status,
     due_at |-> due, created_at |-> created, updated_at |-> updated]
SeedTasks(t) ==
    {SeedTask(1, "call", "pending", t + 2, t, t),
     SeedTask(2, "email", "pending", t + 4, t, t),
     SeedTask(3, "review", "completed", t - 1, t - 1, t - 1)}

-----------------------------------------------------------------------------
(* The state after the schema script has run and the function is deployed *)

NoAccess == [json |-> 0, lookups |-> 0, inserts |-> 0, subscribes |-> 0]
NoRequest == [method |-> "", body |-> [kind |-> "invalid"]]
NoApplication == [tenant_id |-> ""]
NoTask == [id |-> ""]
\* the dashboard before the page is opened
NoQuery ==
    [mounted |-> FALSE, status |-> "pending", fetchStatus |-> "idle", data |-> <<>>,
     hasData |-> FALSE, error |-> "", fetchFailureCount |-> 0]
NoFetch ==
    [phase |-> "none", todayStart |-> 0, todayEnd |-> 0, result |-> <<>>,
     completedAtIssue |-> {}]
NoMutation == [status |-> "idle", variables |-> "", phase |-> "none"]
NoFailures == [last |-> "", sinceComplete |-> ""]
\* SQL NULL; the claims of a token that carries none
NULL == "NULL"
NoClaims == [role |-> NULL, tenant_id |-> NULL, user_id |-> NULL]
NoStatement == [verb |-> "", row |-> [id |-> ""], error |-> ""]
\* no call of the setup endpoint answered yet
NoSetupResponse == [status |-> 0, body |-> [message |-> ""], serial |-> 0]

Init ==
    /\ now = StartTime
    /\ envOk \in BOOLEAN
    /\ leads = SeedLeads
    /\ applications = SeedApplications
    /\ tasks = SeedTasks(StartTime)
    /\ idSeq = 0
    /\ pc = "idle"
    /\ request = NoRequest
    /\ validatedAt = StartTime
    /\ application = NoApplication
    /\ task = NoTask
    /\ insertError = ""
    /\ response = NoResponse
    /\ access = NoAccess
    /\ subs = {}
    /\ sent = <<>>
    /\ statement = NoStatement
    /\ jwt = NoClaims
    /\ user_teams = {}
    /\ query = NoQuery
    /\ fetch = NoFetch
    /\ mutation = NoMutation
    /\ errorBanner = ""
    /\ failures = NoFailures
    /\ setupResponse = NoSetupResponse

dbVars == <<leads, applications, tasks, idSeq>>
insertVars == <<task, insertError>>
rtVars == <<subs, sent>>
handlerVars == <<envOk, idSeq, pc, request, validatedAt, application, insertVars,
                 response, access, rtVars>>

-----------------------------------------------------------------------------
(* The handler *)

\* serve(async (req) => ...): the method dispatch, up to the await of req.json()
Receive(method, body) ==
    /\ pc = "idle"
    /\ request' = [method |-> method, body |-> body]
    /\ access' = NoAccess
    /\ application' = NoApplication
    /\ response' = MethodOutcome(method)
    /\ pc' = IF MethodOutcome(method) = NoResponse THEN "json" ELSE "done"
    /\ UNCHANGED <<outsideVars, now, envOk, dbVars, rtVars, validatedAt, insertVars>>

\* req.json() resolves or rejects; the field checks and createClient follow
\* without another await
ParseBody ==
    /\ pc = "json"
    /\ access' = [access EXCEPT !.json = @ + 1]
    /\ validatedAt' = now
    /\ response' = BodyOutcome(request.body, now, envOk)
    /\ pc' = IF BodyOutcome(request.body, now, envOk) = NoResponse
             THEN "lookup" ELSE "done"
    /\ UNCHANGED <<outsideVars, now, envOk, dbVars, rtVars, request, application, insertVars>>

LookupFailure_ServerError == Failure(500, "Application not found")

\* the Response when the lookup gave an error or no row
LookupFailure == Failure(400, "Application not found")

\* await supabase.from("applications").select("tenant_id").eq(...).single()
LookupApplication(fault) ==
    /\ pc = "lookup"
    /\ access' = [access EXCEPT !.lookups = @ + 1]
    /\ LET rows == SelectApplication(applications, request.body.fields.application_id)
           appError == fault \/ Cardinality(rows) # 1
       IN  IF appError
           THEN /\ response' = LookupFailure
                /\ pc' = "done"
                /\ UNCHANGED application
           ELSE /\ application' = [tenant_id |-> (CHOOSE a \in rows : TRUE).tenant_id]
                /\ pc' = "insert"
                /\ UNCHANGED response
    /\ UNCHANGED <<outsideVars, now, envOk, dbVars, rtVars, request, validatedAt, insertVars>>

InsertFailure_LeaksError(error) == Failure(500, error)

\* the Response when the insert gave an error or no row
InsertFailure(error) == Failure(500, "Failed to create task")

Subscription_OneChannel(taskId, o, app) ==
    [channel |-> "tenant:",
     task_id |-> taskId, application_id |-> o.application_id,
     task_type |-> o.task_type, due_at |-> o.due_at, tenant_id |-> app.tenant_id]

\* the channel subscription made after the insert: what its callback will send
Subscription(taskId, o, app) ==
    [channel |-> "tenant:" \o app.tenant_id,
     task_id |-> taskId, application_id |-> o.application_id,
     task_type |-> o.task_type, due_at |-> o.due_at, tenant_id |-> app.tenant_id]

AfterInsert_NoTryCatch(taskId, realtimeThrows) ==
    IF realtimeThrows THEN Failure(500, "Internal server error") ELSE Success(taskId)

\* the realtime try block, whose catch only logs, and the Response after it
AfterInsert(taskId, realtimeThrows) == Success(taskId)

\* await supabase.from("tasks").insert({...}).select("id").single(), then the
\* realtime try block and the success Response
InsertTask(fault, realtimeThrows) ==
    LET o == request.body.fields
        row == NewTaskRow(o, application, gen_random_uuid(idSeq), now)
        dbError == InsertError(row, applications, tasks, fault)
    IN  /\ pc = "insert"
        /\ insertError' = dbError
        /\ IF dbError # ""
           THEN /\ access' = [access EXCEPT !.inserts = @ + 1]
                /\ response' = InsertFailure(dbError)
                /\ UNCHANGED <<tasks, idSeq, subs, task>>
           ELSE /\ access' = [access EXCEPT !.inserts = @ + 1, !.subscribes = @ + 1]
                /\ tasks' = tasks \cup {row}
                /\ idSeq' = idSeq + 1
                /\ task' = [id |-> row.id]
                /\ subs' = IF realtimeThrows THEN subs
                           ELSE subs \cup {Subscription(row.id, o, application)}
                /\ response' = AfterInsert(row.id, realtimeThrows)
        /\ pc' = "done"
        /\ UNCHANGED <<outsideVars, now, envOk, leads, applications, sent, request, validatedAt,
                       application>>

-----------------------------------------------------------------------------
(* The realtime channel *)

\* the subscribe callback is called with SUBSCRIBED: channel.send, then
\* channel.unsubscribe
Subscribed(s, delivered) ==
    /\ s \in subs
    /\ subs' = subs \ {s}
    /\ sent' = IF delivered
               THEN Append(sent, [channel |-> s.channel, event |-> "task.created",
                                  payload |-> [task_id |-> s.task_id,
                                               application_id |-> s.application_id,
                                               task_type |-> s.task_type,
                                               due_at |-> s.due_at,
                                               tenant_id |-> s.tenant_id,
                                               created_at |-> now]])
               ELSE sent
    /\ UNCHANGED <<outsideVars, now, envOk, dbVars, pc, request, validatedAt, application,
                   insertVars, response, access>>

\* the callback is called with CHANNEL_ERROR, TIMED_OUT or CLOSED: nothing is sent
ChannelFailed(s) ==
    /\ s \in subs
    /\ subs' = subs \ {s}
    /\ UNCHANGED <<outsideVars, now, envOk, dbVars, sent, pc, request, validatedAt, application,
                   insertVars, response, access>>

-----------------------------------------------------------------------------
(* What runs beside the handler *)

Tick ==
    /\ now < StartTime + MaxTicks
    /\ now' = now + 1
    /\ UNCHANGED <<outsideVars, envOk, dbVars, rtVars, pc, request, validatedAt, application,
                   insertVars, response, access>>

DeleteLead_KeepsTasks(l) ==
    /\ l \in leads
    /\ leads' = leads \ {l}
    /\ applications' = {a \in applications : a.lead_id # l.id}
    /\ UNCHANGED <<outsideVars, now, envOk, tasks, idSeq, rtVars, pc, request,
                   validatedAt, application, insertVars, response, access>>

\* DELETE FROM leads WHERE id = l.id, with both ON DELETE CASCADE references
DeleteLead(l) ==
    /\ l \in leads
    /\ leads' = leads \ {l}
    /\ applications' = {a \in applications : a.lead_id # l.id}
    /\ tasks' = {t \in tasks :
                    \E a \in applications : a.id = t.application_id /\ a.lead_id # l.id}
    /\ UNCHANGED <<outsideVars, now, envOk, idSeq, rtVars, pc, request, validatedAt, application,
                   insertVars, response, access>>

Next ==
    \/ pc = "idle" /\ \E m \in Methods, b \in Bodies : Receive(m, b)
    \/ ParseBody
    \/ \E fault \in BOOLEAN : LookupApplication(fault)
    \/ \E fault \in BOOLEAN, realtimeThrows \in BOOLEAN : InsertTask(fault, realtimeThrows)
    \/ \E s \in subs, delivered \in BOOLEAN : Subscribed(s, delivered)
    \/ \E s \in subs : ChannelFailed(s)
    \/ Tick
    \/ \E l \in leads : DeleteLead(l)

Spec == Init /\ [][Next]_vars

-----------------------------------------------------------------------------
(* SQL statements issued against the tables directly, as the schema script  *)
(* issues its INSERTs                                                       *)

SecondLeadId == "550e8400-e29b-41d4-a716-446655440010"
SecondApplicationId == "660e8400-e29b-41d4-a716-446655440010"

LeadIds == {SeedLeadId, SecondLeadId}
ApplicationIds == {SeedApplicationId, SecondApplicationId}

\* the rows the statements try to insert
LeadRows ==
    {[id |-> i, tenant_id |-> SeedTenantId, owner_id |-> SeedOwnerId,
      team_id |-> SeedTeamId, stage |-> "new"] : i \in LeadIds}
ApplicationRows ==
    {[id |-> i, tenant_id |-> SeedTenantId, lead_id |-> l, status |-> "pending"] :
        i \in ApplicationIds, l \in LeadIds}
TaskRows(t) ==
    {[id |-> gen_random_uuid(0), tenant_id |-> SeedTenantId, application_id |-> a,
      type |-> ty, status |-> "pending", due_at |-> d, created_at |-> t,
      updated_at |-> t] :
        a \in ApplicationIds, ty \in {"call", "meeting"}, d \in {t - 1, t, t + 1}}

\* PRIMARY KEY, and REFERENCES leads (id) of table applications
pk_valid(row, rows) == \A r \in rows : r.id # row.id
application_fk_valid(row, rows) == \E l \in rows : l.id = row.lead_id

Statement(verb, row, error) == [verb |-> verb, row |-> row, error |-> error]

\* INSERT INTO leads
InsertLead(row) ==
    LET error == IF pk_valid(row, leads) THEN "" ELSE "duplicate key value"
    IN  /\ statement' = Statement("INSERT INTO leads", row, error)
        /\ leads' = IF error = "" THEN leads \cup {row} ELSE leads
        /\ UNCHANGED <<rlsVars, dashVars, now, applications, tasks, handlerVars, setupVars>>

\* INSERT INTO applications
InsertApplication(row) ==
    LET error == IF ~pk_valid(row, applications) THEN "duplicate key value"
                 ELSE IF ~application_fk_valid(row, leads)
                 THEN "violates foreign key constraint"
                 ELSE ""
    IN  /\ statement' = Statement("INSERT INTO applications", row, error)
        /\ applications' = IF error = "" THEN applications \cup {row} ELSE applications
        /\ UNCHANGED <<rlsVars, dashVars, now, leads, tasks, handlerVars, setupVars>>

\* INSERT INTO tasks
InsertTaskRow(row) ==
    LET error == InsertError(row, applications, tasks, FALSE)
    IN  /\ statement' = Statement("INSERT INTO tasks", row, error)
        /\ tasks' = IF error = "" THEN tasks \cup {row} ELSE tasks
        /\ UNCHANGED <<rlsVars, dashVars, now, leads, applications, handlerVars, setupVars>>

DbNext ==
    \/ \E row \in LeadRows : InsertLead(row)
    \/ \E row \in ApplicationRows : InsertApplication(row)
    \/ \E row \in TaskRows(now) : InsertTaskRow(row)
    \/ \E l \in leads : DeleteLead(l)
    \/ Tick

DbSpec == Init /\ [][DbNext]_vars

-----------------------------------------------------------------------------
(* The dashboard page (src/unnamed/part_000): React Query around            *)
(* getTodaysTasks and markTaskComplete                                      *)

HoursPerDay == 24
\* defaultOptions.queries.retry
retry == 1

\* isoString.split('T')[0] + 'T00:00:00.000Z', and the same of now plus one
\* UTC day
TodayStart(t) == (t \div HoursPerDay) * HoursPerDay
TodayEnd(t) == ((t + HoursPerDay) \div HoursPerDay) * HoursPerDay

\* .select("id, application_id, type, status, due_at")
Columns(row) ==
    [id |-> row.id, application_id |-> row.application_id, type |-> row.type,
     status |-> row.status, due_at |-> row.due_at]

TodaysTasks_AnyStatus(rows, todayStart, todayEnd) ==
    {r \in rows : r.due_at >= todayStart /\ r.due_at < todayEnd}

\* .gte("due_at", todayStart).lt("due_at", todayEnd).neq("status", "completed")
TodaysTasks(rows, todayStart, todayEnd) ==
    {r \in rows : r.due_at >= todayStart /\ r.due_at < todayEnd
                  /\ r.status # "completed"}

\* .order("due_at", { ascending: true }): every order of the rows the
\* database may answer with (rows of equal due_at come in any order)
OrderByDueAt(rows) ==
    {s \in [1..Cardinality(rows) -> rows] :
        /\ \A i, j \in DOMAIN s : i # j => s[i] # s[j]
        /\ \A i, j \in DOMAIN s : i < j => s[i].due_at <= s[j].due_at}

\* the answers the database may give to the query of getTodaysTasks
SelectTodaysTasks(rows, todayStart, todayEnd) ==
    {[i \in DOMAIN s |-> Columns(s[i])] :
        s \in OrderByDueAt(TodaysTasks(rows, todayStart, todayEnd))}

\* getTodaysTasks called at instant t: the query it sends
getTodaysTasks(t, rows) ==
    [phase |-> "sent", todayStart |-> TodayStart(t), todayEnd |-> TodayEnd(t),
     result |-> <<>>,
     completedAtIssue |-> {r.id : r \in {x \in rows : x.status = "completed"}}]

FetchErrorMessage == "Failed to fetch tasks: connection failure"
MutationErrorMessage == "Failed to mark task complete"

\* the query when a fetch starts: without data it goes back to pending
StartFetch(q) ==
    [q EXCEPT !.fetchStatus = "fetching", !.fetchFailureCount = 0,
              !.status = IF q.hasData THEN @ ELSE "pending",
              !.error = IF q.hasData THEN @ ELSE ""]

Failed(message) == [last |-> message, sinceComplete |-> message]

\* the page is opened: useQuery mounts and fetches
Mount ==
    /\ ~query.mounted
    /\ query' = StartFetch([query EXCEPT !.mounted = TRUE])
    /\ fetch' = getTodaysTasks(now, tasks)
    /\ UNCHANGED <<now, leads, applications, tasks, handlerVars, setupVars, statement, rlsVars, mutation,
                   errorBanner, failures>>

\* refetchInterval: 60000; a tick while a fetch is in flight starts nothing
RefetchInterval ==
    /\ query.mounted
    /\ query.fetchStatus = "idle"
    /\ query' = StartFetch(query)
    /\ fetch' = getTodaysTasks(now, tasks)
    /\ UNCHANGED <<now, leads, applications, tasks, handlerVars, setupVars, statement, rlsVars, mutation,
                   errorBanner, failures>>

\* the database answers the query of the fetch in flight
DbSelectTasks ==
    /\ fetch.phase = "sent"
    /\ \E result \in SelectTodaysTasks(tasks, fetch.todayStart, fetch.todayEnd) :
          fetch' = [fetch EXCEPT !.phase = "answered", !.result = result]
    /\ UNCHANGED <<now, leads, applications, tasks, handlerVars, setupVars, statement, rlsVars, query,
                   mutation, errorBanner, failures>>

\* getTodaysTasks returns data: the query succeeds
FetchSucceeds ==
    /\ fetch.phase = "answered"
    /\ query' = [query EXCEPT !.status = "success", !.fetchStatus = "idle",
                              !.data = fetch.result, !.hasData = TRUE, !.error = "",
                              !.fetchFailureCount = 0]
    /\ fetch' = NoFetch
    /\ UNCHANGED <<now, leads, applications, tasks, handlerVars, setupVars, statement, rlsVars, mutation,
                   errorBanner, failures>>

\* the useEffect on [isError, fetchError]
ShowFetchError_OnlyOnIsError(q, message, shown) ==
    IF q.status # "error" THEN message ELSE shown

ShowFetchError(q, message, shown) == message

\* getTodaysTasks throws (the database or the network failed): the query
\* retries once after a delay, then goes to error, which the effect shows
FetchFails ==
    /\ fetch.phase \in {"sent", "answered"}
    /\ IF query.fetchFailureCount < retry
       THEN /\ query' = [query EXCEPT !.fetchFailureCount = @ + 1]
            /\ fetch' = [NoFetch EXCEPT !.phase = "waiting"]
            /\ UNCHANGED <<errorBanner, failures>>
       ELSE /\ query' = [query EXCEPT !.status = "error", !.fetchStatus = "idle",
                                      !.error = FetchErrorMessage,
                                      !.fetchFailureCount = @ + 1]
            /\ fetch' = NoFetch
            /\ errorBanner' = ShowFetchError(query, FetchErrorMessage, errorBanner)
            /\ failures' = Failed(FetchErrorMessage)
    /\ UNCHANGED <<now, leads, applications, tasks, handlerVars, setupVars, statement, rlsVars, mutation>>

\* the retry delay is over: getTodaysTasks is called again
FetchRetry ==
    /\ fetch.phase = "waiting"
    /\ fetch' = getTodaysTasks(now, tasks)
    /\ UNCHANGED <<now, leads, applications, tasks, handlerVars, setupVars, statement, rlsVars, query,
                   mutation, errorBanner, failures>>

\* the rows whose "Mark Complete" button is shown and enabled
Completable(q, m) ==
    IF ~q.mounted \/ (q.fetchStatus = "fetching" /\ q.status = "pending")
          \/ m.status = "pending"
    THEN {}
    ELSE {q.data[i].id : i \in {j \in DOMAIN q.data : q.data[j].status # "completed"}}

\* handleMarkComplete(taskId): completeMutation.mutate(taskId)
Mutate(taskId) ==
    /\ taskId \in Completable(query, mutation)
    /\ mutation' = [status |-> "pending", variables |-> taskId, phase |-> "sent"]
    /\ UNCHANGED <<now, leads, applications, tasks, handlerVars, setupVars, statement, rlsVars, query,
                   fetch, errorBanner, failures>>

\* an update that stamps the row as well
markTaskComplete_TouchesUpdatedAt(rows, taskId) ==
    {IF r.id = taskId THEN [r EXCEPT !.status = "completed", !.updated_at = now] ELSE r :
        r \in rows}

\* .from("tasks").update({ status: "completed" }).eq("id", taskId)
markTaskComplete(rows, taskId) ==
    {IF r.id = taskId THEN [r EXCEPT !.status = "completed"] ELSE r : r \in rows}

\* the database runs the update, or fails to
DbUpdateTask(dbFails) ==
    /\ mutation.phase = "sent"
    /\ IF dbFails
       THEN /\ mutation' = [mutation EXCEPT !.phase = "rejected"]
            /\ UNCHANGED tasks
       ELSE /\ mutation' = [mutation EXCEPT !.phase = "applied"]
            /\ tasks' = markTaskComplete(tasks, mutation.variables)
    /\ UNCHANGED <<now, leads, applications, handlerVars, setupVars, statement, rlsVars, query, fetch,
                   errorBanner, failures>>

invalidateQueries_NoRefetch(q, f, t, rows) == [query |-> q, fetch |-> f]

\* queryClient.invalidateQueries: the active query is fetched again; a fetch
\* in flight is cancelled when the query has data and joined when it has none
invalidateQueries(q, f, t, rows) ==
    IF q.fetchStatus = "fetching" /\ ~q.hasData
    THEN [query |-> q, fetch |-> f]
    ELSE [query |-> StartFetch(q), fetch |-> getTodaysTasks(t, rows)]

\* markTaskComplete resolves: onSuccess
MutationSucceeds ==
    /\ mutation.phase = "applied"
    /\ mutation' = [mutation EXCEPT !.status = "success", !.phase = "none"]
    /\ query' = invalidateQueries(query, fetch, now, tasks).query
    /\ fetch' = invalidateQueries(query, fetch, now, tasks).fetch
    /\ errorBanner' = ""
    /\ failures' = [failures EXCEPT !.sinceComplete = ""]
    /\ UNCHANGED <<now, leads, applications, tasks, handlerVars, setupVars, statement, rlsVars>>

\* a mutation that sends the update again when it has failed
MutationFails_Reissues ==
    /\ mutation.phase \in {"sent", "rejected"}
    /\ mutation' = [mutation EXCEPT !.status = "error", !.phase = "sent"]
    /\ errorBanner' = MutationErrorMessage
    /\ failures' = Failed(MutationErrorMessage)
    /\ UNCHANGED <<now, leads, applications, tasks, handlerVars, setupVars, statement, rlsVars,
                   query, fetch>>

\* markTaskComplete throws (the request or the update failed): onError.  An
\* error is taken to mean that the statement had no effect, as for the
\* handler's insert
MutationFails ==
    /\ mutation.phase \in {"sent", "rejected"}
    /\ mutation' = [mutation EXCEPT !.status = "error", !.phase = "none"]
    /\ errorBanner' = MutationErrorMessage
    /\ failures' = Failed(MutationErrorMessage)
    /\ UNCHANGED <<now, leads, applications, tasks, handlerVars, setupVars, statement, rlsVars, query,
                   fetch>>

DashNext ==
    \/ Mount
    \/ RefetchInterval
    \/ DbSelectTasks
    \/ FetchSucceeds
    \/ FetchFails
    \/ FetchRetry
    \/ \E taskId \in Completable(query, mutation) : Mutate(taskId)
    \/ \E dbFails \in BOOLEAN : DbUpdateTask(dbFails)
    \/ MutationSucceeds
    \/ MutationFails
    \/ Tick

DashSpec == Init /\ [][DashNext]_vars

-----------------------------------------------------------------------------
(* Row-level security on table leads (src/unnamed/part_001, lines 1-70)     *)

\* SQL's three-valued logic: "true", "false" and "null" (unknown)
Eq3(a, b) == IF a = NULL \/ b = NULL THEN "null" ELSE IF a = b THEN "true" ELSE "false"
In3(a, set) ==
    IF a = NULL THEN "null" ELSE IF a \in set THEN "true"
    ELSE IF NULL \in set THEN "null" ELSE "false"
And3(x, y) ==
    IF x = "false" \/ y = "false" THEN "false"
    ELSE IF x = "null" \/ y = "null" THEN "null" ELSE "true"
Or3(x, y) ==
    IF x = "true" \/ y = "true" THEN "true"
    ELSE IF x = "null" \/ y = "null" THEN "null" ELSE "false"

\* SELECT team_id FROM user_teams WHERE user_id = (auth.jwt() ->> 'user_id')::uuid
TeamsOf(claims, teams) ==
    {t.team_id : t \in {u \in teams : Eq3(u.user_id, claims.user_id) = "true"}}

leads_select_policy(claims, teams, row) ==
    Or3(Or3(And3(Eq3(claims.role, "admin"), Eq3(row.tenant_id, claims.tenant_id)),
            And3(Eq3(claims.role, "counselor"), Eq3(row.owner_id, claims.user_id))),
        And3(Eq3(claims.role, "counselor"), In3(row.team_id, TeamsOf(claims, teams))))

leads_insert_policy(claims, row) ==
    And3(Eq3(row.tenant_id, claims.tenant_id), In3(claims.role, {"admin", "counselor"}))

\* leads_update_policy: USING, on the row as it is
leads_update_policy_using(claims, teams, row) ==
    Or3(Or3(And3(Eq3(claims.role, "admin"), Eq3(row.tenant_id, claims.tenant_id)),
            And3(Eq3(claims.role, "counselor"), Eq3(row.owner_id, claims.user_id))),
        And3(Eq3(claims.role, "counselor"), In3(row.team_id, TeamsOf(claims, teams))))

leads_update_policy_check_Absent(claims, row) == "true"

\* leads_update_policy: WITH CHECK, on the row as written
leads_update_policy_check(claims, row) == Eq3(row.tenant_id, claims.tenant_id)

leads_delete_policy(claims, row) ==
    And3(Eq3(claims.role, "admin"), Eq3(row.tenant_id, claims.tenant_id))

\* a USING or WITH CHECK expression lets a row through when it is true
Passes(value) == value = "true"

RlsError == "new row violates row-level security policy for table \"leads\""

\* the claims, rows and memberships tried
Claims ==
    [role : {"admin", "counselor", "viewer", NULL},
     tenant_id : {SeedTenantId, OtherTenantId, NULL},
     user_id : {SeedOwnerId, OtherUserId}]
Memberships == [user_id : {SeedOwnerId, OtherUserId}, team_id : {SeedTeamId}]
NewLeadRows ==
    {[id |-> SecondLeadId, tenant_id |-> t, owner_id |-> OtherUserId,
      team_id |-> NULL, stage |-> "new"] : t \in {SeedTenantId, OtherTenantId}}
Rewritten(row, tenant) == [row EXCEPT !.tenant_id = tenant, !.stage = "contacted"]

\* a request arrives with another token
SetClaims(claims) ==
    /\ jwt' = claims
    /\ UNCHANGED <<now, leads, applications, tasks, handlerVars, setupVars, statement,
                   user_teams, dashVars>>

\* a user is put on a team
AssignTeam(membership) ==
    /\ membership \notin user_teams
    /\ user_teams' = user_teams \cup {membership}
    /\ UNCHANGED <<now, leads, applications, tasks, handlerVars, setupVars, statement, jwt,
                   dashVars>>

\* SELECT id FROM leads, as the caller: the rows the policy shows
RlsSelectLeads ==
    /\ statement' = Statement("SELECT FROM leads",
                              [id |-> {l.id : l \in {r \in leads :
                                  Passes(leads_select_policy(jwt, user_teams, r))}}],
                              "")
    /\ UNCHANGED <<now, leads, applications, tasks, handlerVars, setupVars, rlsVars, dashVars>>

\* INSERT INTO leads, as the caller
RlsInsertLead(row) ==
    LET dbError == IF ~Passes(leads_insert_policy(jwt, row)) THEN RlsError
                   ELSE IF ~pk_valid(row, leads) THEN "duplicate key value"
                   ELSE ""
    IN  /\ statement' = Statement("INSERT INTO leads", row, dbError)
        /\ leads' = IF dbError = "" THEN leads \cup {row} ELSE leads
        /\ UNCHANGED <<now, applications, tasks, handlerVars, setupVars, rlsVars, dashVars>>

\* UPDATE leads SET tenant_id = ..., stage = 'contacted' WHERE id = old.id, as
\* the caller: a row USING hides is not updated, a row WITH CHECK refuses is
\* an error
RlsUpdateLead(old, tenant) ==
    LET new == Rewritten(old, tenant)
        found == Passes(leads_update_policy_using(jwt, user_teams, old))
        dbError == IF found /\ ~Passes(leads_update_policy_check(jwt, new))
                   THEN RlsError ELSE ""
    IN  /\ old \in leads
        /\ statement' = Statement("UPDATE leads", new, dbError)
        /\ leads' = IF found /\ dbError = "" THEN (leads \ {old}) \cup {new} ELSE leads
        /\ UNCHANGED <<now, applications, tasks, handlerVars, setupVars, rlsVars, dashVars>>

\* DELETE FROM leads WHERE id = old.id, as the caller, with the cascade
RlsDeleteLead(old) ==
    LET found == Passes(leads_delete_policy(jwt, old))
    IN  /\ old \in leads
        /\ statement' = Statement("DELETE FROM leads", old, "")
        /\ leads' = IF found THEN leads \ {old} ELSE leads
        /\ applications' = IF found THEN applications \ ApplicationsOf(old, applications)
                           ELSE applications
        /\ tasks' = IF found
                    THEN tasks \ TasksOf(ApplicationsOf(old, applications), tasks)
                    ELSE tasks
        /\ UNCHANGED <<now, handlerVars, setupVars, rlsVars, dashVars>>

PolicyNext ==
    \/ \E claims \in Claims : SetClaims(claims)
    \/ \E membership \in Memberships : AssignTeam(membership)
    \/ RlsSelectLeads
    \/ \E row \in NewLeadRows : RlsInsertLead(row)
    \/ \E old \in leads, tenant \in {SeedTenantId, OtherTenantId} : RlsUpdateLead(old, tenant)
    \/ \E old \in leads : RlsDeleteLead(old)

PolicySpec == Init /\ [][PolicyNext]_vars

-----------------------------------------------------------------------------
(* The setup endpoint (src/scripts/setup-db.ts).  One call is one action:   *)
(* the calls of a sequence do not overlap.  The look at                     *)
(* information_schema and the CREATE TABLE IF NOT EXISTS statements change  *)
(* no row of a database the schema script has been run on, and their        *)
(* errors are ignored, so every POST from the local host arrives at         *)
(* insertTestData.  envOk stands for the environment of this deployment     *)
(* too: createClient throws when the URL or the key is empty.               *)

SetupMethods == {"POST", "GET"}
Hosts == {"localhost:3000", "crm.example.com"}

\* host.includes('localhost') || host.includes('127.0.0.1')
IsLocal(host) == host = "localhost:3000"

\* the read and the write of the call that fail, if any does: a failed read
\* is not noticed, the first failed write that is checked ends the call.
\* After a failed read of the lead the call ends at the insert of the lead
\* whatever else fails, and after a failed read of the tasks it inserts no
\* lead and no application
ReadFaults == {"none", "leads.select", "tasks.select"}
WriteFaults ==
    {"none", "tasks.delete", "tasks.insert", "leads.insert", "applications.insert"}
SetupFaults ==
    {f \in ReadFaults \X WriteFaults :
        \/ f[1] = "none"
        \/ f[1] = "leads.select" /\ f[2] = "none"
        \/ f[1] = "tasks.select" /\ f[2] \in {"none", "tasks.delete", "tasks.insert"}}

Ready(message) == [status |-> 200, body |-> [message |-> message, status |-> "ready"]]
SetupFailure(status, error) == [status |-> status, body |-> [error |-> error]]
Thrown(error, message) ==
    [status |-> 500, body |-> [error |-> error, message |-> message]]

\* the three rows of `correctedTasks` and of `tasks`, at instant t
correctedTasks_TwoCompleted(t) ==
    {SeedTask(1, "call", "pending", t + 2, t, t),
     SeedTask(2, "email", "completed", t + 4, t, t),
     SeedTask(3, "review", "completed", t - 1, t - 1, t)}
correctedTasks(t) ==
    {SeedTask(1, "call", "pending", t + 2, t, t),
     SeedTask(2, "email", "pending", t + 4, t, t),
     SeedTask(3, "review", "completed", t - 1, t - 1, t)}

\* .from('tasks').delete().eq('application_id', applicationId)
DeleteTasksOf(rows, applicationId) == {r \in rows : r.application_id # applicationId}

\* .from('tasks').insert(rows): one statement, all rows or none
InsertRowsError(new, apps, rows, fault) ==
    LET errors == {InsertError(r, apps, rows, fault) : r \in new} \ {""}
    IN  IF errors = {} THEN "" ELSE CHOOSE e \in errors : TRUE

insertTestData(L, A, T, t, readFault, writeFault) ==
    LET Out(l, a, rows, answer) ==
            [leads |-> l, applications |-> a, tasks |-> rows, response |-> answer]
        Caught(message) == Thrown("Failed to insert test data", message)
        existingLead == readFault # "leads.select" /\ \E l \in L : l.id = SeedLeadId
        seen == IF readFault = "tasks.select" THEN {}
                ELSE {r \in T : r.application_id = SeedApplicationId}
        pendingCount == Cardinality({r \in seen : r.status = "pending"})
        completedCount == Cardinality({r \in seen : r.status = "completed"})
        \* delete the tasks of the application, insert the three rows
        Recreate(l, a, deleteChecked, answer) ==
            IF deleteChecked /\ writeFault = "tasks.delete"
            THEN Out(l, a, T, Caught("connection failure"))
            ELSE LET kept == IF writeFault = "tasks.delete" THEN T
                             ELSE DeleteTasksOf(T, SeedApplicationId)
                     tasksError == InsertRowsError(correctedTasks(t), a, kept,
                                                   writeFault = "tasks.insert")
                 IN  IF tasksError # "" THEN Out(l, a, kept, Caught(tasksError))
                     ELSE Out(l, a, kept \cup correctedTasks(t), answer)
        lead == CHOOSE l \in SeedLeads : TRUE
        app == CHOOSE a \in SeedApplications : TRUE
        leadError == IF writeFault = "leads.insert" THEN "connection failure"
                     ELSE IF ~pk_valid(lead, L) THEN "duplicate key value"
                     ELSE ""
        appError == IF writeFault = "applications.insert" THEN "connection failure"
                    ELSE IF ~pk_valid(app, A) THEN "duplicate key value"
                    ELSE IF ~application_fk_valid(app, L \cup {lead})
                    THEN "violates foreign key constraint"
                    ELSE ""
        initialized ==
            [status |-> 200,
             body |-> [message |-> "Database initialized successfully with test data",
                       status |-> "ready",
                       data |-> [lead |-> SeedLeadId, application |-> SeedApplicationId,
                                 tasks |-> Cardinality(correctedTasks(t))]]]
    IN  IF existingLead
        THEN IF pendingCount = 2 /\ completedCount = 1
             THEN Out(L, A, T, Ready("Database already initialized with correct test data"))
             ELSE Recreate(L, A, TRUE, Ready("Database test data corrected successfully"))
        ELSE IF leadError # "" THEN Out(L, A, T, Caught(leadError))
        ELSE IF appError # "" THEN Out(L \cup {lead}, A, T, Caught(appError))
        ELSE Recreate(L \cup {lead}, A \cup {app}, FALSE, initialized)

\* export default async function handler(req, res)
handler(method, host, env, L, A, T, t, readFault, writeFault) ==
    LET Untouched(answer) ==
            [leads |-> L, applications |-> A, tasks |-> T, response |-> answer]
    IN  IF method # "POST" THEN Untouched(SetupFailure(405, "Method not allowed"))
        ELSE IF ~IsLocal(host)
        THEN Untouched(SetupFailure(403, "Forbidden - only available on localhost"))
        ELSE IF ~env
        THEN Untouched(Thrown("Failed to initialize database", "supabaseUrl is required."))
        ELSE insertTestData(L, A, T, t, readFault, writeFault)

\* one call; `serial` tells its answer from the answer of the call before
SetupCall(method, host, readFault, writeFault) ==
    \E out \in {handler(method, host, envOk, leads, applications, tasks, now,
                        readFault, writeFault)} :
        /\ leads' = out.leads
        /\ applications' = out.applications
        /\ tasks' = out.tasks
        /\ setupResponse' = [status |-> out.response.status, body |-> out.response.body,
                             serial |-> 1 - setupResponse.serial]
        /\ UNCHANGED <<now, handlerVars, statement, rlsVars, dashVars>>

-----------------------------------------------------------------------------------------------------------------------------------------------------
(* The function beside the dashboard (SystemSpec), and the function         *)
(* serving one request after another beside the setup endpoint (SetupSpec)  *)

\* as many tasks as the function is followed creating
MaxCreated == 1

SampleBodies ==
    {[kind |-> "invalid"],
     [kind |-> "object",
      fields |-> [application_id |-> SeedApplicationId, task_type |-> "call",
                  due_at |-> IsoText(StartTime + 1)]],
     [kind |-> "object",
      fields |-> [application_id |-> UnknownApplicationId, task_type |-> "email",
                  due_at |-> IsoText(StartTime + 2)]]}

\* serve(...) takes the next request once the response has been returned
ServeNext ==
    /\ pc = "done"
    /\ idSeq < MaxCreated
    /\ pc' = "idle"
    /\ UNCHANGED <<outsideVars, now, envOk, dbVars, rtVars, request, validatedAt,
                   application, insertVars, response, access>>

SystemNext ==
    \/ pc = "idle" /\ \E b \in SampleBodies : Receive("POST", b)
    \/ ParseBody
    \/ \E fault \in BOOLEAN : LookupApplication(fault)
    \/ \E fault \in BOOLEAN, realtimeThrows \in BOOLEAN : InsertTask(fault, realtimeThrows)
    \/ \E s \in subs, delivered \in BOOLEAN : Subscribed(s, delivered)
    \/ \E s \in subs : ChannelFailed(s)
    \/ Mount
    \/ RefetchInterval
    \/ DbSelectTasks
    \/ FetchSucceeds
    \/ FetchFails
    \/ FetchRetry
    \/ \E taskId \in Completable(query, mutation) : Mutate(taskId)
    \/ \E dbFails \in BOOLEAN : DbUpdateTask(dbFails)
    \/ MutationSucceeds
    \/ MutationFails
    \/ Tick

SystemSpec == Init /\ [][SystemNext]_vars

\* the update of markTaskComplete reaching the database for a task whose
\* button the dashboard shows at some time: one that is not completed
CompleteTask(taskId) ==
    /\ \E r \in tasks : r.id = taskId /\ r.status # "completed"
    /\ tasks' = markTaskComplete(tasks, taskId)
    /\ UNCHANGED <<now, leads, applications, handlerVars, setupVars, statement, rlsVars,
                   dashVars>>

\* the sample bodies that name the seed application
SeedBodies ==
    {b \in SampleBodies :
        b.kind = "object" /\ b.fields.application_id = SeedApplicationId}

\* the callbacks of the realtime channel write no table and are left out
SetupNext ==
    \/ pc = "idle" /\ \E b \in SeedBodies : Receive("POST", b)
    \/ ParseBody
    \/ \E fault \in BOOLEAN : LookupApplication(fault)
    \/ \E fault \in BOOLEAN, realtimeThrows \in BOOLEAN : InsertTask(fault, realtimeThrows)
    \/ ServeNext
    \/ \E r \in tasks : CompleteTask(r.id)
    \/ \E m \in SetupMethods, h \in Hosts :
          (m # "POST" \/ ~IsLocal(h)) /\ SetupCall(m, h, "none", "none")
    \/ \E h \in {x \in Hosts : IsLocal(x)}, f \in SetupFaults :
          SetupCall("POST", h, f[1], f[2])
    \/ \E l \in leads : DeleteLead(l)
    \/ Tick

SetupSpec == Init /\ [][SetupNext]_vars

-----------------------------------------------------------------------------
(* Vocabulary of the properties, stated apart from the handler's own checks *)

IsPost == request.method = "POST"
Done == pc = "done"
HasObject == request.body.kind = "object"
Fields == request.body.fields

Present(f) == HasObject /\ f \in DOMAIN Fields

\* canonical textual form of a UUID: hex groups of 8, 4, 4, 4 and 12 digits
\* joined by hyphens
HexDigits ==
    {"0","1","2","3","4","5","6","7","8","9","a","b","c","d","e","f",
     "A","B","C","D","E","F"}
Canonical(text) ==
    LET c == Chars(text) IN
    /\ Len(c) = 8 + 4 + 4 + 4 + 12 + 4
    /\ \A i \in 1..Len(c) : (c[i] = "-") <=> (i \in {9, 14, 19, 24})
    /\ \A i \in 1..Len(c) : c[i] # "-" => c[i] \in HexDigits

ApplicationIdGiven == Present("application_id") /\ Fields.application_id # ""
TaskTypeGiven == Present("task_type") /\ Fields.task_type # ""
DueAtGiven == Present("due_at") /\ Fields.due_at.form # "empty"

\* the request passes checks 1 to 5
PassesFirstFive ==
    /\ ApplicationIdGiven /\ TaskTypeGiven /\ DueAtGiven
    /\ Canonical(Fields.application_id)
    /\ Fields.task_type \in {"call", "email", "review"}

\* the request passes all six checks, the sixth at the instant it was made
PassesValidation ==
    /\ PassesFirstFive
    /\ Fields.due_at.form = "iso"
    /\ Fields.due_at.time > validatedAt

ReferencedApplicationExists ==
    \E a \in applications : a.id = ToUuid(Fields.application_id)

IsFailure(status) ==
    /\ response.status = status
    /\ DOMAIN response.body = {"success", "error"}
    /\ response.body.success = FALSE

\* a step of the handler (every handler step moves pc)
HandlerStep == pc' # pc

-----------------------------------------------------------------------------
(* C1 *)

\* C1 as stated: every POST request that passes validation and references an
\* existing application is answered 200 with the id of a task row, of status
\* "pending", that the request created.  Stated for the requests whose lookup
\* found the application, which still exists when the response is returned.
C1_AsStated ==
    (Done /\ IsPost /\ HasObject /\ PassesValidation /\ access.lookups = 1
          /\ application # NoApplication /\ ReferencedApplicationExists)
        => /\ response.status = 200
           /\ \E t \in tasks : t.id = response.body.task_id /\ t.status = "pending"

\* C1, amended: a POST request that passes validation, whose lookup returns the
\* application and whose insert the database accepts creates exactly one task
\* row; the row has status "pending" whatever status the body carries, and the
\* response is 200 with that row's id as task_id.  No other step of the handler
\* changes table tasks.
C1_OneRowCreated ==
    [][ HandlerStep =>
          IF pc = "insert" /\ insertError' = ""
          THEN /\ IsPost /\ PassesValidation
               /\ \E row \in tasks' :
                     /\ row \notin tasks
                     /\ tasks' = tasks \cup {row}
                     /\ row.status = "pending"
                     /\ row.application_id = ToUuid(Fields.application_id)
                     /\ row.type = Fields.task_type
                     /\ row.due_at = Fields.due_at.time
                     /\ response' =
                          [status |-> 200,
                           body |-> [success |-> TRUE, task_id |-> row.id],
                           headers |-> JsonHeaders]
          ELSE tasks' = tasks ]_vars

\* a request carrying status "completed" was answered 200 and its row is stored
C1_Witness ==
    /\ Done /\ IsPost /\ HasObject /\ PassesValidation
    /\ Present("status") /\ Fields.status = "completed"
    /\ response.status = 200
    /\ \E t \in tasks : t.id = response.body.task_id /\ t.status = "pending"

-----------------------------------------------------------------------------
(* C2 *)

\* the body was parsed and breaks a validation rule: a field is missing (there
\* is none in the JSON value null), or a present field is invalid
FailsValidation ==
    \/ request.body.kind = "null"
    \/ HasObject /\ ~PassesValidation

\* C2: a POST request that fails a validation step is answered 400 with
\* {success: false, error}, and table tasks is as the schema script left it
\* but for lead deletions (no row was added).  Stated for a deployment whose
\* credentials are set.
C2_ValidationFailureIs400 ==
    (envOk /\ Done /\ IsPost /\ FailsValidation)
        => /\ IsFailure(400)
           /\ tasks \subseteq SeedTasks(StartTime)

-----------------------------------------------------------------------------
(* C3 *)

\* the rules in the order of the specification; a value that is absent breaks
\* the rule on its presence and the rule on its form
RuleBroken(k) ==
    CASE k = 1 -> ~ApplicationIdGiven
      [] k = 2 -> ~TaskTypeGiven
      [] k = 3 -> ~DueAtGiven
      [] k = 4 -> ~(ApplicationIdGiven /\ Canonical(Fields.application_id))
      [] k = 5 -> ~(TaskTypeGiven /\ Fields.task_type \in {"call", "email", "review"})
      [] k = 6 -> ~(DueAtGiven /\ Fields.due_at.form = "iso"
                       /\ Fields.due_at.time > validatedAt)

RuleMessages(k) ==
    CASE k = 1 -> {"application_id is required"}
      [] k = 2 -> {"task_type is required"}
      [] k = 3 -> {"due_at is required"}
      [] k = 4 -> {"application_id must be a valid UUID"}
      [] k = 5 -> {"task_type must be one of: \"call\", \"email\", \"review\""}
      [] k = 6 -> {"Invalid ISO timestamp format", "due_at must be in the future"}

Rules == 1..6

FirstBroken == CHOOSE k \in Rules : RuleBroken(k) /\ \A j \in 1..(k - 1) : ~RuleBroken(j)

\* C3: the error returned for a parsed body that breaks rules is a message of
\* the lowest-numbered rule it breaks, and no two rules share a message.
\* Stated for a deployment whose credentials are set.
C3_FirstFailureWins ==
    /\ \A j, k \in Rules : j # k => RuleMessages(j) \cap RuleMessages(k) = {}
    /\ (envOk /\ Done /\ IsPost /\ request.body.kind \in {"null", "object"}
             /\ \E k \in Rules : RuleBroken(k))
          => /\ "error" \in DOMAIN response.body
             /\ response.body.error \in RuleMessages(FirstBroken)

-----------------------------------------------------------------------------
(* C4 *)

\* C4: a POST request whose application_id is a text not in the canonical UUID
\* form never reaches the application lookup or the task insert, and is
\* answered 400.
C4_BadUuidNoStorageAccess ==
    (IsPost /\ Present("application_id") /\ ~Canonical(Fields.application_id))
        => /\ access.lookups = 0 /\ access.inserts = 0
           /\ pc \in {"json", "done"}
           /\ Done => IsFailure(400)

\* an identifier one character too long, in an otherwise valid request, was
\* answered
C4_Witness ==
    /\ Done /\ IsPost /\ Present("application_id")
    /\ Fields.application_id = LongId
    /\ TaskTypeGiven /\ Fields.task_type = "call"
    /\ DueAtGiven /\ Fields.due_at.form = "iso" /\ Fields.due_at.time > validatedAt
    /\ response.status = 400

-----------------------------------------------------------------------------
(* C5 *)

EnumeratedValuesError == "task_type must be one of: \"call\", \"email\", \"review\""

TaskTypeOutsideSet ==
    Present("task_type") /\ Fields.task_type \notin {"call", "email", "review"}

\* C5 as stated: every task_type value outside the set is answered 400 with
\* the error that enumerates the valid values.  Stated for requests whose
\* other fields pass their checks.
C5_AsStated ==
    (Done /\ IsPost /\ TaskTypeOutsideSet
          /\ ApplicationIdGiven /\ Canonical(Fields.application_id) /\ DueAtGiven
          /\ Fields.due_at.form = "iso" /\ Fields.due_at.time > validatedAt)
        => /\ IsFailure(400)
           /\ response.body.error = EnumeratedValuesError

\* C5, amended: every task_type value outside the set is answered 400; the
\* error enumerates the valid values when the task_type is not empty, the
\* application_id is present and a canonical UUID and the due_at is present;
\* an empty task_type with an application_id present is answered
\* "task_type is required".
C5_TaskTypeOutsideSet ==
    (Done /\ IsPost /\ TaskTypeOutsideSet)
        => /\ IsFailure(400)
           /\ (TaskTypeGiven /\ ApplicationIdGiven /\ DueAtGiven
                  /\ Canonical(Fields.application_id))
                => response.body.error = EnumeratedValuesError
           /\ (~TaskTypeGiven /\ ApplicationIdGiven)
                => response.body.error = "task_type is required"

\* "meeting" in an otherwise valid request was answered with the enumeration
C5_Witness ==
    /\ Done /\ IsPost /\ TaskTypeOutsideSet /\ Fields.task_type = "meeting"
    /\ ApplicationIdGiven /\ Fields.application_id = SeedApplicationId
    /\ DueAtGiven /\ Fields.due_at.form = "iso" /\ Fields.due_at.time > validatedAt
    /\ response.body.error = EnumeratedValuesError

-----------------------------------------------------------------------------
(* C6 *)

DueNotAfterValidation ==
    DueAtGiven /\ Fields.due_at.form = "iso" /\ Fields.due_at.time <= validatedAt

\* C6: a POST request whose due_at is an instant at or before the instant of
\* validation is answered 400 and goes no further; the error is
\* "due_at must be in the future" whenever the request reaches the due_at
\* check, that is, passes checks 1 to 5.
C6_DueNotInFuture ==
    (IsPost /\ access.json = 1 /\ DueNotAfterValidation)
        => /\ Done
           /\ IsFailure(400)
           /\ access.lookups = 0 /\ access.inserts = 0
           /\ PassesFirstFive => response.body.error = "due_at must be in the future"

\* a due_at equal to the instant of validation was rejected
C6_Witness ==
    /\ Done /\ IsPost /\ PassesFirstFive /\ DueNotAfterValidation
    /\ Fields.due_at.time = validatedAt
    /\ response.body.error = "due_at must be in the future"

-----------------------------------------------------------------------------
(* C7 *)

\* C7: when the lookup of a request that passed validation finds no application
\* with the given id, the request is answered 400 "Application not found", no
\* insert is issued and table tasks is unchanged.
C7_ApplicationNotFound ==
    [][ (pc = "lookup" /\ HandlerStep /\ ~ReferencedApplicationExists)
          => /\ IsPost /\ PassesValidation
             /\ pc' = "done"
             /\ response' = [status |-> 400,
                             body |-> [success |-> FALSE,
                                       error |-> "Application not found"],
                             headers |-> JsonHeaders]
             /\ tasks' = tasks
             /\ access'.inserts = 0 ]_vars

\* a valid request for an identifier of no row was answered "Application not
\* found"
C7_Witness ==
    /\ Done /\ IsPost /\ PassesValidation
    /\ Fields.application_id = UnknownApplicationId
    /\ access.lookups = 1 /\ access.inserts = 0
    /\ response.status = 400 /\ response.body.error = "Application not found"

-----------------------------------------------------------------------------
(* C8 *)

\* C8: when the insert fails, whatever the error of the database, the request
\* is answered 500 "Failed to create task" and table tasks is unchanged.
C8_InsertFailureIsGeneric500 ==
    [][ (pc = "insert" /\ HandlerStep /\ insertError' # "")
          => /\ response' = [status |-> 500,
                             body |-> [success |-> FALSE,
                                       error |-> "Failed to create task"],
                             headers |-> JsonHeaders]
             /\ tasks' = tasks ]_vars

\* the application was deleted between lookup and insert: the insert broke the
\* foreign key and the request was answered 500
C8_Witness ==
    /\ Done /\ IsPost /\ access.inserts = 1
    /\ insertError = "violates foreign key constraint"
    /\ response.status = 500
    /\ tasks = {}

\* the clock passed due_at between validation and insert: the insert broke the
\* check constraint
C8_WitnessCheckConstraint ==
    /\ Done /\ IsPost /\ access.inserts = 1
    /\ insertError = "violates check constraint task_due_at_valid"
    /\ response.status = 500

-----------------------------------------------------------------------------
(* C9 *)

Broadcasts(taskId) == {i \in DOMAIN sent : sent[i].payload.task_id = taskId}

InsertSucceeded == access.inserts = 1 /\ insertError = ""

\* C9: once the insert has succeeded the response is 200 {success: true,
\* task_id} and stays so whether the broadcast is sent, fails or is still
\* outstanding; one subscription is made per request and at most one broadcast
\* is sent for its task.
C9_PublishIsBestEffort ==
    /\ InsertSucceeded
         => /\ Done
            /\ response = [status |-> 200,
                           body |-> [success |-> TRUE, task_id |-> task.id],
                           headers |-> JsonHeaders]
            /\ Cardinality(Broadcasts(task.id)) <= 1
            /\ Cardinality(subs) + Cardinality(Broadcasts(task.id)) <= 1
    /\ access.subscribes <= 1
    /\ Len(sent) <= 1

\* the insert succeeded, the broadcast failed and nothing is outstanding: the
\* response is still the success
C9_Witness ==
    /\ InsertSucceeded /\ Done
    /\ response.status = 200
    /\ subs = {} /\ sent = <<>>

-----------------------------------------------------------------------------
(* C10 *)

\* C10: a request of another method than POST is answered at once, without its
\* body being read and without a lookup or an insert: OPTIONS with an empty
\* body and the CORS headers that admit any origin, every other method with 405.
C10_NonPostIsTurnedAway ==
    (request.method \notin {"", "POST"})
        => /\ Done
           /\ access = [json |-> 0, lookups |-> 0, inserts |-> 0, subscribes |-> 0]
           /\ tasks \subseteq SeedTasks(StartTime)
           /\ request.method = "OPTIONS"
                => /\ response.body = [null |-> TRUE]
                   /\ <<"Access-Control-Allow-Origin", "*">> \in response.headers
                   /\ <<"Access-Control-Allow-Methods", "POST, OPTIONS">>
                         \in response.headers
           /\ request.method # "OPTIONS" => response.status = 405

\* a DELETE request carrying a body that would pass validation was answered 405
C10_Witness ==
    /\ Done /\ request.method = "DELETE"
    /\ HasObject /\ PassesFirstFive
    /\ Fields.due_at.form = "iso" /\ Fields.due_at.time > now
    /\ response.status = 405

-----------------------------------------------------------------------------
(* C11, C12: the tables under inserts and lead deletions *)

NoOrphans ==
    /\ \A a \in applications : \E l \in leads : l.id = a.lead_id
    /\ \A t \in tasks : \E a \in applications : a.id = t.application_id

\* the leads of this state whose id is in no row of the next state
DeletedLeads == {l \in leads : \A m \in leads' : m.id # l.id}

\* C11: in every reachable state every Application references an existing
\* Lead and every Task references an existing Application; a step that
\* deletes a Lead removes all Applications of that Lead and all Tasks of
\* those Applications.
C11_NoOrphansAndCascade ==
    /\ []NoOrphans
    /\ [][ \A l \in DeletedLeads :
              /\ ApplicationsOf(l, applications) \cap applications' = {}
              /\ TasksOf(ApplicationsOf(l, applications), tasks) \cap tasks' = {} ]_vars

\* the seed Lead was deleted with its Application and Tasks, while a Lead
\* inserted beside it keeps an Application and a Task
C11_Witness ==
    /\ \A l \in leads : l.id # SeedLeadId
    /\ \A a \in applications : a.id # SeedApplicationId
    /\ \A t \in tasks : t.application_id # SeedApplicationId
    /\ \E l \in leads, a \in applications, t \in tasks :
          l.id = SecondLeadId /\ a.lead_id = l.id /\ t.application_id = a.id

TaskRowsValid ==
    \A t \in tasks : t.type \in {"call", "email", "review"} /\ t.due_at >= t.created_at

\* the statement just issued is an INSERT INTO tasks of a row breaking a rule
InsertsInvalidTask ==
    /\ statement' # statement
    /\ statement'.verb = "INSERT INTO tasks"
    /\ \/ statement'.row.type \notin {"call", "email", "review"}
       \/ statement'.row.due_at < statement'.row.created_at

\* C12: every Task row of every reachable state has type call, email or
\* review and due_at >= created_at; an INSERT of a row breaking either
\* condition is rejected with an error and leaves the table as it was.
C12_CheckConstraintsHold ==
    /\ []TaskRowsValid
    /\ [][ InsertsInvalidTask => statement'.error # "" /\ tasks' = tasks ]_vars

\* an INSERT of a well-typed row of an existing Application, due before its
\* creation, was rejected by task_due_at_valid
C12_Witness ==
    /\ statement.verb = "INSERT INTO tasks"
    /\ statement.row.type = "call"
    /\ statement.row.due_at < statement.row.created_at
    /\ statement.error = "violates check constraint task_due_at_valid"
    /\ statement.row \notin tasks

\* an INSERT of a row of type "meeting" was rejected by task_type_valid
C12_WitnessType ==
    /\ statement.verb = "INSERT INTO tasks"
    /\ statement.row.type = "meeting"
    /\ statement.error = "violates check constraint task_type_valid"
    /\ statement.row \notin tasks

-----------------------------------------------------------------------------
(* C13, C14, C15: the dashboard *)

\* 00:00:00Z of the UTC day of instant t
Midnight(t) == t - (t % HoursPerDay)

\* a call of getTodaysTasks is issued in this step
FetchIssued == fetch'.phase = "sent" /\ fetch' # fetch
\* the database answers the fetch in flight in this step
FetchAnswered == fetch.phase = "sent" /\ fetch'.phase = "answered"
\* the answer of the fetch in flight becomes the data of the query in this step
FetchDelivered == fetch.phase = "answered" /\ query'.status = "success" /\ fetch'.phase = "none"

Ascending(list) == \A i, j \in DOMAIN list : i < j => list[i].due_at <= list[j].due_at

\* list holds, once each, exactly the rows of table tasks due in
\* [from, from + 1 day) and not completed
ExactlyDueAndOpen(list, from) ==
    /\ \A i, j \in DOMAIN list : i # j => list[i].id # list[j].id
    /\ \A i \in DOMAIN list : \E t \in tasks :
          /\ list[i] = [id |-> t.id, application_id |-> t.application_id,
                        type |-> t.type, status |-> t.status, due_at |-> t.due_at]
          /\ from <= t.due_at /\ t.due_at < from + HoursPerDay
          /\ t.status # "completed"
    /\ \A t \in tasks :
          (from <= t.due_at /\ t.due_at < from + HoursPerDay /\ t.status # "completed")
              => \E i \in DOMAIN list : list[i].id = t.id

ListedIds(list) == {list[i].id : i \in DOMAIN list}

\* markTaskComplete resolves in this step
CompleteResolved == mutation.phase = "applied" /\ mutation'.status = "success"

\* C14: the step in which a "mark complete" succeeds issues a fetch of the
\* list, and the answer of any fetch issued after a Task was updated to
\* completed, once it becomes the dashboard's list, does not hold that Task.
C14_CompletedLeavesTheList ==
    [][ /\ CompleteResolved =>
              /\ query'.fetchStatus = "fetching"
              /\ fetch'.phase = "sent"
              /\ fetch'.todayStart = Midnight(now)
              /\ mutation.variables \in fetch'.completedAtIssue
        /\ FetchDelivered =>
              ListedIds(query'.data) \cap fetch.completedAtIssue = {} ]_vars

\* a Task was marked complete from the list, the fetch that followed has
\* come back, and the list holds the other Task only
C14_Witness ==
    /\ mutation.status = "success"
    /\ query.status = "success" /\ fetch.phase = "none"
    /\ Len(query.data) = 1
    /\ mutation.variables \notin ListedIds(query.data)
    /\ \E t \in tasks : t.id = mutation.variables /\ t.status = "completed"
                        /\ Midnight(t.due_at) = Midnight(query.data[1].due_at)

\* the fetch in flight fails in this step (to be retried, or for good)
FetchFailed ==
    /\ fetch.phase \in {"sent", "answered"}
    /\ fetch'.phase = "waiting" \/ (fetch'.phase = "none" /\ query'.status = "error")
\* markTaskComplete throws in this step
CompleteFailed == mutation.status = "pending" /\ mutation'.status = "error"

ListKept == query'.data = query.data /\ query'.hasData = query.hasData

\* C15 as stated: the banner always shows the most recent error that a fetch
\* (its retry included) or a "mark complete" ended with, and no failure
\* changes the list.
C15_AsStated ==
    /\ [](errorBanner = failures.last)
    /\ [][ (FetchFailed \/ CompleteFailed) => ListKept ]_vars

\* C15: the banner shows the most recent error that a fetch (its retry
\* included) or a "mark complete" ended with since the last successful
\* "mark complete", and nothing when there was none; a failed fetch and a
\* failed "mark complete" leave the loaded list as it was.
C15_BannerAndListKept ==
    /\ [](errorBanner = failures.sinceComplete)
    /\ [][ (FetchFailed \/ CompleteFailed) => ListKept ]_vars

\* a "mark complete" failed, then a refetch failed: the banner shows the
\* fetch error and the list loaded before still holds its Tasks
C15_Witness ==
    /\ mutation.status = "error"
    /\ query.status = "error" /\ query.hasData /\ Len(query.data) > 0
    /\ errorBanner = FetchErrorMessage
    /\ failures.last = FetchErrorMessage

-----------------------------------------------------------------------------
(* C16, C17: the policies on table leads *)

\* C16: for the claims of any caller (of a tenant) and every Lead row of
\* another tenant, the select, insert, update and delete policies all refuse
\* the row.
C16_CrossTenantDenied ==
    \A l \in leads :
        (jwt.tenant_id # NULL /\ l.tenant_id # jwt.tenant_id)
            => /\ ~Passes(leads_select_policy(jwt, user_teams, l))
               /\ ~Passes(leads_insert_policy(jwt, l))
               /\ ~(/\ Passes(leads_update_policy_using(jwt, user_teams, l))
                    /\ Passes(leads_update_policy_check(jwt, l)))
               /\ ~Passes(leads_delete_policy(jwt, l))

\* the disjunction of visibility, said of a caller and a row
VisibleTo(claims, row) ==
    \/ claims.role = "admin" /\ row.tenant_id = claims.tenant_id
    \/ claims.role = "counselor" /\ row.owner_id = claims.user_id
    \/ /\ claims.role = "counselor"
       /\ \E m \in user_teams : m.user_id = claims.user_id /\ m.team_id = row.team_id

-----------------------------------------------------------------------------
(* C18, C19, C20: the handler beside a deletion, its notification, its tenant *)

\* the insert of the request is issued in this step
InsertIssued == pc = "insert" /\ pc' = "done"

\* C18: when the Application the lookup found is gone by the time of the
\* insert, the insert fails, the request is answered 500 and no Task row is
\* added; in no state does a Task row reference an Application that is gone.
C18_DeletedApplicationIs500 ==
    /\ [][ (InsertIssued /\ ~ReferencedApplicationExists)
              => /\ insertError' # ""
                 /\ response' = [status |-> 500,
                                 body |-> [success |-> FALSE,
                                           error |-> "Failed to create task"],
                                 headers |-> JsonHeaders]
                 /\ tasks' = tasks ]_vars
    /\ [](\A t \in tasks : \E a \in applications : a.id = t.application_id)

\* the lookup found the Application, its Lead was deleted before the insert,
\* and the request was answered 500 with no Task row stored
C18_Witness ==
    /\ Done /\ IsPost
    /\ access.lookups = 1 /\ application # NoApplication
    /\ access.inserts = 1 /\ insertError # ""
    /\ applications = {} /\ tasks = {}
    /\ response.status = 500 /\ response.body.error = "Failed to create task"

\* C19: every notification sent is a "task.created" of the request whose
\* insert succeeded, on the channel of the tenant the lookup resolved, and
\* carries the task's id, application, type, due instant and tenant; a
\* request that ends without a successful insert has no notification sent
\* or pending.
C19_NotificationAfterInsert ==
    /\ \A i \in DOMAIN sent :
          /\ InsertSucceeded /\ Done /\ response.status = 200
          /\ sent[i].event = "task.created"
          /\ sent[i].channel = "tenant:" \o application.tenant_id
          /\ sent[i].payload.task_id = task.id
          /\ ToUuid(sent[i].payload.application_id) = ToUuid(Fields.application_id)
          /\ sent[i].payload.task_type = Fields.task_type
          /\ sent[i].payload.due_at.time = Fields.due_at.time
          /\ sent[i].payload.tenant_id = application.tenant_id
          /\ \E a \in SeedApplications :
                a.id = ToUuid(Fields.application_id)
                /\ a.tenant_id = application.tenant_id
    /\ ~InsertSucceeded => (sent = <<>> /\ subs = {})

\* the notification of a task created for the upper-case spelling of the
\* seed Application has been sent on the seed tenant's channel
C19_Witness ==
    /\ Len(sent) = 1
    /\ sent[1].channel = "tenant:" \o SeedTenantId
    /\ sent[1].payload.application_id = UpperApplicationId
    /\ sent[1].payload.task_id = gen_random_uuid(0)

\* C20: the Task row a request inserts has the tenant_id the lookup of that
\* request read, which is the tenant_id of the Application the row
\* references; a tenant_id in the body changes nothing.
C20_TenantFromApplication ==
    [][ (InsertIssued /\ insertError' = "")
          => \E row \in tasks' :
                /\ tasks' = tasks \cup {row} /\ row \notin tasks
                /\ row.tenant_id = application.tenant_id
                /\ \E a \in applications :
                      a.id = row.application_id /\ a.tenant_id = row.tenant_id ]_vars

\* a request naming another tenant in its body created a Task of the seed
\* tenant
C20_Witness ==
    /\ Done /\ InsertSucceeded
    /\ Present("tenant_id") /\ Fields.tenant_id = OtherTenantId
    /\ \E row \in tasks : row.id = task.id /\ row.tenant_id = SeedTenantId

-----------------------------------------------------------------------------
(* C21 *)

\* what one request has issued: at most one lookup, one insert, one
\* subscription, and at most one broadcast for any task
OneOfEach ==
    /\ access.lookups <= 1
    /\ access.inserts <= 1
    /\ access.subscribes <= 1
    /\ \A t \in tasks : Cardinality(Broadcasts(t.id)) <= 1

\* a call of getTodaysTasks is issued in this step because the one before it
\* failed
FetchReissued == fetch.phase = "waiting" /\ FetchIssued
\* the update of markTaskComplete is sent in this step
UpdateSent == mutation.phase # "sent" /\ mutation'.phase = "sent"

\* a failed "mark complete" is not sent again: the update is sent only by a
\* click on an enabled button, and a failure leaves none in flight and no
\* row changed
CompleteNotReissued ==
    /\ [](mutation.status # "pending" => mutation.phase = "none")
    /\ [][ /\ UpdateSent => mutation.status # "pending" /\ mutation'.status = "pending"
           /\ CompleteFailed => mutation'.phase = "none" /\ tasks' = tasks ]_vars

\* C21 as stated: a request makes at most one lookup, one insert and one
\* publish attempt, and neither a failed fetch of the dashboard nor a failed
\* "mark complete" is issued again.
C21_AsStated ==
    /\ []OneOfEach
    /\ CompleteNotReissued
    /\ [][ ~FetchReissued ]_vars

\* C21, corrected: a request makes at most one lookup, one insert and one
\* publish attempt, and a failed "mark complete" is not issued again; a fetch
\* of the dashboard that fails is issued again once, and when that call fails
\* too the query ends in error with no call in flight.
C21_OneRetryOfTheFetch ==
    /\ []OneOfEach
    /\ CompleteNotReissued
    /\ [](fetch.phase = "waiting" => query.fetchFailureCount = 1)
    /\ [][ /\ (FetchFailed /\ query.fetchFailureCount = 0) => fetch'.phase = "waiting"
           /\ (FetchFailed /\ query.fetchFailureCount > 0)
                 => /\ fetch'.phase = "none"
                    /\ query'.status = "error"
                    /\ query'.fetchStatus = "idle"
           /\ FetchReissued => query.fetchFailureCount = 1 ]_vars

\* a request that made its lookup, its insert and its subscription, beside a
\* dashboard whose fetch failed twice and whose "mark complete" failed
C21_Witness ==
    /\ Done
    /\ access.lookups = 1 /\ access.inserts = 1 /\ access.subscribes = 1
    /\ query.status = "error" /\ query.fetchFailureCount = 2
    /\ mutation.status = "error"

-----------------------------------------------------------------------------
(* C22 *)

\* the rows a step adds to table tasks
Inserted == tasks' \ tasks

\* C22: a step of the handler serving a POST request adds a Task row exactly
\* when it returns the response with status 200, and then adds one row; the
\* steps that return 400 or 500, and those that return nothing yet, add none,
\* so a request answered 400 or 500 has inserted no row; and the body of
\* every response but the preflight's carries success = (status = 200).
C22_StatusTellsInsert ==
    /\ [][ (HandlerStep /\ request'.method = "POST")
              => /\ (pc' = "done" /\ response'.status = 200) <=> Inserted # {}
                 /\ Cardinality(Inserted) <= 1
                 /\ tasks \subseteq tasks'
                 /\ (pc' = "done" /\ response'.status \in {400, 500}) => tasks' = tasks
         ]_vars
    /\ []((Done /\ IsPost) => (response.status = 200 <=> InsertSucceeded))
    /\ []((Done /\ IsPost /\ response.status \in {400, 500})
             => (access.inserts = 0 \/ insertError # ""))
    /\ []((Done /\ request.method # "OPTIONS")
             => /\ "success" \in DOMAIN response.body
                /\ response.body.success = (response.status = 200))

\* a POST request answered 200 whose row is in the table
C22_Witness ==
    /\ Done /\ IsPost
    /\ response.status = 200
    /\ response.body.success
    /\ \E r \in tasks : r.id = response.body.task_id

\* a POST request answered 500 after its insert failed
C22_WitnessFailed ==
    /\ Done /\ IsPost
    /\ response.status = 500
    /\ access.inserts = 1
    /\ ~response.body.success

-----------------------------------------------------------------------------
(* C23 *)

InvalidJson == IsPost /\ request.body.kind = "invalid"

\* C23: a POST request whose body is no JSON is answered 400 "Invalid JSON
\* in request body" by the step that reads the body, whatever the environment
\* and the clock, and has then made no lookup, no insert and no subscription
\* and changed no table.
C23_InvalidJsonIs400 ==
    /\ [][ (InvalidJson /\ pc = "json" /\ HandlerStep)
              => /\ pc' = "done"
                 /\ response'.status = 400
                 /\ response'.body = [success |-> FALSE,
                                      error |-> "Invalid JSON in request body"]
                 /\ <<leads, applications, tasks>>' = <<leads, applications, tasks>>
         ]_vars
    /\ []((InvalidJson /\ Done)
             => /\ response.status = 400
                /\ response.body.error = "Invalid JSON in request body"
                /\ access.json = 1
                /\ access.lookups = 0 /\ access.inserts = 0 /\ access.subscribes = 0)

\* such a request answered, in a deployment whose environment is not set
C23_Witness == InvalidJson /\ Done /\ response.status = 400 /\ ~envOk

-----------------------------------------------------------------------------
(* C24 *)

\* the database applies, or rejects, the update of "mark complete" in this step
UpdateApplied == mutation.phase = "sent" /\ mutation'.phase = "applied"
UpdateRejected == mutation.phase = "sent" /\ mutation'.phase = "rejected"

\* table tasks after the step is table tasks before it, but for the status
\* of the row with this id, which is "completed"
OnlyStatusOf(taskId) ==
    /\ {r.id : r \in tasks'} = {r.id : r \in tasks}
    /\ Cardinality(tasks') = Cardinality(tasks)
    /\ \A r \in tasks : \E q \in tasks' :
          /\ q.id = r.id
          /\ \A f \in DOMAIN r \ {"status"} : q[f] = r[f]
          /\ q.status = IF r.id = taskId THEN "completed" ELSE r.status

\* the update has been applied to this task before
AlreadyCompleted(taskId) == \E r \in tasks : r.id = taskId /\ r.status = "completed"

\* C24: the step in which the update of "mark complete" is applied changes
\* the status of the Task with that id to "completed" and nothing else in
\* table tasks (type, due_at, tenant_id and updated_at of that row included),
\* and changes nothing at all when that Task is completed already; applying
\* the update twice to any stored Task gives the table that applying it once
\* gives; no other step of the dashboard changes a row, and a "mark complete"
\* that fails never had its update applied.
C24_OnlyStatusChanges ==
    /\ [][ /\ UpdateApplied => OnlyStatusOf(mutation.variables)
           /\ (UpdateApplied /\ AlreadyCompleted(mutation.variables)) => tasks' = tasks
           /\ (UpdateRejected \/ CompleteFailed) => tasks' = tasks
           /\ CompleteFailed => mutation.phase # "applied"
           /\ tasks' # tasks => UpdateApplied ]_vars
    /\ [](\A r \in tasks :
             markTaskComplete(markTaskComplete(tasks, r.id), r.id)
                = markTaskComplete(tasks, r.id))

\* the update applied to a pending Task after the clock has moved on since
\* the row was written
C24_Witness ==
    /\ mutation.phase = "applied"
    /\ \E r \in tasks : /\ r.id = mutation.variables
                        /\ r.status = "completed"
                        /\ r.updated_at < now
                        /\ r.id \notin fetch.completedAtIssue

\* the update sent a second time for a Task it has completed (the list the
\* button was clicked in was stale)
C24_WitnessTwice ==
    /\ mutation.phase = "sent"
    /\ AlreadyCompleted(mutation.variables)

\* a "mark complete" that failed, the Task still pending
C24_WitnessFailed ==
    /\ mutation.status = "error"
    /\ \E r \in tasks : r.id = mutation.variables /\ r.status = "pending"

-----------------------------------------------------------------------------
(* C25 *)

\* a call of the setup endpoint is answered in this step
SetupStep == setupResponse'.serial # setupResponse.serial

SeedTasksIn(rows) == {r \in rows : r.application_id = SeedApplicationId}
WithStatus(rows, status) == {r \in rows : r.status = status}

\* the seed lead and application are stored, and the tasks of the seed
\* application are two pending ones and a completed one
SeedReady(L, A, T) ==
    /\ \E l \in L : l.id = SeedLeadId
    /\ \E a \in A : a.id = SeedApplicationId
    /\ Cardinality(SeedTasksIn(T)) = 3
    /\ Cardinality(WithStatus(SeedTasksIn(T), "pending")) = 2
    /\ Cardinality(WithStatus(SeedTasksIn(T), "completed")) = 1

CalledAgain(t, readFault, writeFault) ==
    handler("POST", "localhost:3000", envOk', leads', applications', tasks', t,
            readFault, writeFault)

\* what the call is claimed to leave behind when it answers 200
LeavesSeedReady ==
    [][ (SetupStep /\ setupResponse'.status = 200) => SeedReady(leads', applications', tasks')
      ]_vars

C25_WitnessInitialized ==
    /\ setupResponse.status = 200
    /\ "data" \in DOMAIN setupResponse.body

=============================================================================
